---------------------------- MODULE Spec2Model ----------------------------
(***************************************************************************)
(* The TUN inbound of jets: the reactor TunHandler::run of                 *)
(* src/proxy/tun/mod.rs, its frame classification handle_tun_frame, and    *)
(* the two components it drives, UdpTun (association table, forwarding     *)
(* tasks, cleanup, keep-alive) and TcpTun (user-space TCP stack).          *)
(*                                                                         *)
(* mod.rs is modelled from its code.  The modules tun/udp.rs, tun/tcp.rs   *)
(* and tun/ip_packet.rs are modelled from their contract in spec.md        *)
(* (sections 4.2 - 4.4); the definitions concerned say so.                 *)
(*                                                                         *)
(* Time is counted in units of 5 seconds.                                  *)
(***************************************************************************)
EXTENDS Integers, Sequences, FiniteSets, TLC

\* ------------------------------------------------------------- bounds
\* The clock stops at MaxTime (40 s).
MaxTime == 8
\* Capacity of UdpTun's bounded send queue (frames).
QueueCap == 1
\* Frames the TCP stack's transmit ring holds.
TcpRingCap == 2
\* Datagrams an outbound socket's receive buffer holds.
SockCap == 1

\* ------------------------------------------------- UdpTun's time constants
\* idle_timeout = 30 s and the cleanup interval = 10 s of spec.md (S4, S5).
IdleTimeout == 6
CleanupInterval == 2

\* ---------------------------------------------------------- addresses
IPv4(a, b, c, d) == [fam |-> 4, o |-> <<a, b, c, d>>]
IPv6(a, h) == [fam |-> 6, o |-> <<a, 0, 0, 0, 0, 0, 0, h>>]
SocketAddr(ip, port) == [ip |-> ip, port |-> port]

\* std::net::Ipv4Addr::{is_broadcast, is_multicast, is_unspecified} and
\* std::net::Ipv6Addr::{is_multicast, is_unspecified}
v4_is_broadcast(a) == a.o = <<255, 255, 255, 255>>
v4_is_multicast(a) == a.o[1] \in 224..239
v4_is_unspecified(a) == a.o = <<0, 0, 0, 0>>
v6_is_multicast(a) == a.o[1] \div 256 = 255
v6_is_unspecified(a) == a.o = <<0, 0, 0, 0, 0, 0, 0, 0>>

\* 2^n, n in 0..8
Pow2(n) == CASE n = 0 -> 1 [] n = 1 -> 2 [] n = 2 -> 4 [] n = 3 -> 8 [] n = 4 -> 16
             [] n = 5 -> 32 [] n = 6 -> 64 [] n = 7 -> 128 [] OTHER -> 256

\* Octet i of the last address of an IPv4 network: the network bits kept, the
\* host bits set.
BroadcastOctet(oct, i, prefix) ==
    LET past == prefix - 8 * (i - 1)
        keep == IF past < 0 THEN 0 ELSE IF past > 8 THEN 8 ELSE past
        host == Pow2(8 - keep)
    IN  (oct \div host) * host + (host - 1)

\* IpNet::broadcast() of the interface address.
Broadcast(net) ==
    [fam |-> 4, o |-> [i \in 1..4 |-> BroadcastOctet(net.addr.o[i], i, net.prefix)]]

\* self.address: the interface is 10.0.0.1/24.
address == [addr |-> IPv4(10, 0, 0, 1), prefix |-> 24]
address_broadcast == Broadcast(address)

NoAddr == SocketAddr(IPv4(0, 0, 0, 0), 0)

\* The hosts of the model.
ClientIp == IPv4(10, 0, 0, 50)
Client2Ip == IPv4(10, 0, 0, 51)
DnsIp == IPv4(8, 8, 8, 8)
WebIp == IPv4(93, 184, 216, 34)
Client6Ip == IPv6(64768, 80)
Web6Ip == IPv6(8193, 1)

\* ------------------------------------------------------------- frames
\* An IP frame as the device delivers it.  ver is the version nibble; hdr_ok
\* says whether the IP header passes the checked parser; l4_ok whether the
\* TCP or UDP header does.  flag is the TCP segment's kind.
Frame(ver, hdr_ok, src, dst, proto, l4_ok, sport, dport, flag, payload) ==
    [ver |-> ver, hdr_ok |-> hdr_ok, src |-> src, dst |-> dst, proto |-> proto,
     l4_ok |-> l4_ok, sport |-> sport, dport |-> dport, flag |-> flag,
     payload |-> payload]

NoFrame == Frame(0 - 1, FALSE, NoAddr.ip, NoAddr.ip, 0, FALSE, 0, 0, "", "")

Udp4(src, sport, dst, dport, payload) ==
    Frame(4, TRUE, src, dst, 17, TRUE, sport, dport, "", payload)
Tcp4(src, sport, dst, dport, flag) ==
    Frame(4, TRUE, src, dst, 6, TRUE, sport, dport, flag, "")

\* Frames no parser accepts.
MalformedFrames ==
    { Frame(0, FALSE, NoAddr.ip, NoAddr.ip, 0, FALSE, 0, 0, "", ""),
      Frame(5, TRUE, ClientIp, WebIp, 6, TRUE, 50000, 443, "syn", ""),
      Frame(4, FALSE, ClientIp, DnsIp, 17, TRUE, 40000, 53, "", "P"),
      Frame(6, FALSE, Client6Ip, Web6Ip, 6, TRUE, 50000, 443, "syn", "") }

\* Frames with a broadcast, multicast or unspecified address on either side.
NonUnicastFrames ==
    { Udp4(ClientIp, 1000, IPv4(10, 0, 0, 255), 5353, "P"),
      Udp4(IPv4(10, 0, 0, 255), 40000, DnsIp, 53, "P"),
      Udp4(ClientIp, 40000, IPv4(255, 255, 255, 255), 53, "P"),
      Udp4(ClientIp, 40000, IPv4(224, 0, 0, 251), 5353, "P"),
      Udp4(IPv4(239, 1, 1, 1), 40000, DnsIp, 53, "P"),
      Tcp4(IPv4(0, 0, 0, 0), 50000, WebIp, 443, "syn"),
      Tcp4(ClientIp, 50000, IPv4(0, 0, 0, 0), 443, "syn"),
      Frame(4, TRUE, ClientIp, IPv4(255, 255, 255, 255), 1, TRUE, 0, 0, "", "echo"),
      Frame(6, TRUE, Client6Ip, IPv6(65282, 1), 17, TRUE, 40000, 5353, "", "P"),
      Frame(6, TRUE, IPv6(0, 0), Web6Ip, 58, TRUE, 0, 0, "", "echo"),
      Frame(6, TRUE, IPv6(65281, 2), Web6Ip, 6, TRUE, 50000, 443, "syn", "") }

\* Unicast frames whose transport header does not parse.
BadTransportFrames ==
    { Frame(4, TRUE, ClientIp, WebIp, 6, FALSE, 50000, 443, "syn", ""),
      Frame(4, TRUE, ClientIp, DnsIp, 17, FALSE, 40000, 53, "", "P") }

\* Well-formed unicast UDP datagrams: two clients, a DNS and a non-DNS target.
UdpFrames ==
    { Udp4(ClientIp, 40000, DnsIp, 53, "P"),
      Udp4(ClientIp, 40000, WebIp, 8000, "P"),
      Udp4(Client2Ip, 40000, WebIp, 8000, "P") }

\* Well-formed unicast TCP segments of two flows.
TcpFrames ==
    { Tcp4(ClientIp, 50000, WebIp, 443, "syn"),
      Tcp4(ClientIp, 50000, WebIp, 443, "ack"),
      Tcp4(ClientIp, 50001, DnsIp, 853, "syn"),
      Tcp4(ClientIp, 50001, DnsIp, 853, "ack") }

IcmpFrames ==
    { Frame(4, TRUE, ClientIp, WebIp, 1, TRUE, 0, 0, "", "echo"),
      Frame(6, TRUE, Client6Ip, Web6Ip, 58, TRUE, 0, 0, "", "echo") }

\* Protocol 47 (GRE) and 50 (ESP).
OtherFrames ==
    { Frame(4, TRUE, ClientIp, WebIp, 47, TRUE, 0, 0, "", ""),
      Frame(6, TRUE, Client6Ip, Web6Ip, 50, TRUE, 0, 0, "", "") }

\* An IPv6 jumbogram, longer than a packet buffer.
OversizeFrames ==
    { Frame(6, TRUE, Client6Ip, Web6Ip, 17, TRUE, 40000, 8000, "", "jumbo") }

Frames ==
    MalformedFrames \cup NonUnicastFrames \cup BadTransportFrames \cup UdpFrames
        \cup TcpFrames \cup IcmpFrames \cup OtherFrames \cup OversizeFrames

\* What the host routes into the device in one run: the frames it sends, for
\* how long the run is observed, and whether the remote endpoints answer
\* within that time.
Traffic(frames, horizon, replies) ==
    [frames |-> frames, horizon |-> horizon, replies |-> replies]

\* A burst of every kind of frame: the dropped ones, and one UDP client,
\* one TCP flow and the echo requests for them to be told from.
MixedTraffic ==
    Traffic(MalformedFrames \cup NonUnicastFrames \cup BadTransportFrames
              \cup IcmpFrames \cup OtherFrames
              \cup { Udp4(ClientIp, 40000, DnsIp, 53, "P"),
                     Tcp4(ClientIp, 50000, WebIp, 443, "syn"),
                     Tcp4(ClientIp, 50000, WebIp, 443, "ack") }, 0, FALSE)
\* One UDP client sending DNS queries that are answered, observed until the
\* clock stops.
UdpTraffic == Traffic({Udp4(ClientIp, 40000, DnsIp, 53, "P")}, MaxTime, TRUE)
\* A burst of datagrams of two UDP clients to a DNS and a non-DNS target.
TwoClientTraffic == Traffic(UdpFrames, 0, FALSE)
\* A burst of segments of two TCP flows, echo requests and a jumbogram.
TcpTraffic == Traffic(TcpFrames \cup IcmpFrames \cup OversizeFrames, 0, FALSE)

\* The scenarios by name.
Scenarios == {"mixed", "udp", "two_clients", "tcp"}
TrafficOf(name) ==
    CASE name = "mixed" -> MixedTraffic
      [] name = "udp" -> UdpTraffic
      [] name = "two_clients" -> TwoClientTraffic
      [] OTHER -> TcpTraffic


\* Wire length of a frame: IP header, transport header, payload.
FrameLen(f) ==
    (IF f.ver = 6 THEN 40 ELSE 20) + (IF f.proto = 6 THEN 20 ELSE 8)
        + (IF f.payload = "" THEN 0 ELSE IF f.payload = "jumbo" THEN 70000 ELSE 4)

\* ------------------------------------------------------------ parsers
\* IpPacket::new_checked: "err" for a malformed header, "none" when the
\* version nibble is neither 4 nor 6, "some" for a valid IPv4 or IPv6 view.
IpPacket_new_checked(f) ==
    IF f.ver \notin {4, 6} THEN "none"
    ELSE IF ~f.hdr_ok THEN "err"
    ELSE "some"

\* smoltcp's IpProtocol of the header's protocol number.
IpProtocol(n) ==
    CASE n = 6 -> "Tcp" [] n = 17 -> "Udp" [] n = 1 -> "Icmp" [] n = 58 -> "Icmpv6"
      [] OTHER -> "Unknown"

\* TcpPacket::new_checked / UdpPacket::new_checked on the IP payload.
TcpPacket_new_checked(f) == IF f.l4_ok THEN "ok" ELSE "err"
UdpPacket_new_checked(f) == IF f.l4_ok THEN "ok" ELSE "err"

\* Mutation of non_unicast: the comparison with the device broadcast address
\* is left out.
non_unicast_NoDeviceBroadcast(ip, device_broadcast_addr) ==
    IF ip.fam = 4
    THEN v4_is_broadcast(ip) \/ v4_is_multicast(ip) \/ v4_is_unspecified(ip)
    ELSE v6_is_multicast(ip) \/ v6_is_unspecified(ip)

\* src_non_unicast / dst_non_unicast of handle_tun_frame.
non_unicast(ip, device_broadcast_addr) ==
    \/ ip = device_broadcast_addr
    \/ IF ip.fam = 4
       THEN v4_is_broadcast(ip) \/ v4_is_multicast(ip) \/ v4_is_unspecified(ip)
       ELSE v6_is_multicast(ip) \/ v6_is_unspecified(ip)

\* Mutation of Classify: the arm for the other protocols is merged with the
\* ICMP arm.
Classify_OtherToStack(f) ==
    IF IpPacket_new_checked(f) = "err" THEN "ip_parse_err"
    ELSE IF IpPacket_new_checked(f) = "none" THEN "unrecognized"
    ELSE IF non_unicast(f.src, address_broadcast) \/ non_unicast(f.dst, address_broadcast)
         THEN "non_unicast"
    ELSE IF IpProtocol(f.proto) = "Tcp"
         THEN IF TcpPacket_new_checked(f) = "err" THEN "tcp_hdr_err" ELSE "tcp"
    ELSE IF IpProtocol(f.proto) = "Udp"
         THEN IF UdpPacket_new_checked(f) = "err" THEN "udp_hdr_err" ELSE "udp"
    ELSE "icmp"

\* Mutation of Classify: the transport header is used without the checked
\* parse.
Classify_UncheckedTransport(f) ==
    IF IpPacket_new_checked(f) = "err" THEN "ip_parse_err"
    ELSE IF IpPacket_new_checked(f) = "none" THEN "unrecognized"
    ELSE IF non_unicast(f.src, address_broadcast) \/ non_unicast(f.dst, address_broadcast)
         THEN "non_unicast"
    ELSE IF IpProtocol(f.proto) = "Tcp" THEN "tcp"
    ELSE IF IpProtocol(f.proto) = "Udp" THEN "udp"
    ELSE IF IpProtocol(f.proto) \in {"Icmp", "Icmpv6"} THEN "icmp"
    ELSE "ignored"

\* The path handle_tun_frame takes for a frame, in the order of its checks.
Classify(f) ==
    IF IpPacket_new_checked(f) = "err" THEN "ip_parse_err"
    ELSE IF IpPacket_new_checked(f) = "none" THEN "unrecognized"
    ELSE IF non_unicast(f.src, address_broadcast) \/ non_unicast(f.dst, address_broadcast)
         THEN "non_unicast"
    ELSE IF IpProtocol(f.proto) = "Tcp"
         THEN IF TcpPacket_new_checked(f) = "err" THEN "tcp_hdr_err" ELSE "tcp"
    ELSE IF IpProtocol(f.proto) = "Udp"
         THEN IF UdpPacket_new_checked(f) = "err" THEN "udp_hdr_err" ELSE "udp"
    ELSE IF IpProtocol(f.proto) \in {"Icmp", "Icmpv6"} THEN "icmp"
    ELSE "ignored"

\* -------------------------------------------------------------- state
VARIABLES
    traffic,        \* the scenario: which frames the host sends, for how long
    state,          \* TunInbound::run: "start", "created" (the device exists),
                    \* "create_failed" (returned Err); the reactor: "running",
                    \* "failed" (run returned Err), "panicked"
    now,            \* the clock
    nextTick,       \* deadline of udp_cleanup_timer's next tick
    intercept_dns,  \* TunInbound.intercept_dns (NoAddr: None)
    assoc,          \* UdpTun's association table
    tasks,          \* client endpoints whose forwarding task is alive
    udpq,           \* UdpTun's send queue, read by udp.recv_packet()
    flows,          \* the TCP stack's connection table
    accepted,       \* hijacked connections handed to the proxy core
    tcpq,           \* frames the TCP stack wants to transmit (tcp.recv_packet())
    channel,        \* TunInbound::run's ready channel: "none", "open", "closed"
    ready,          \* the sends made on the ready channel, each with its result
    packet_buffer,  \* the buffer in the device read slot
    inflight,       \* the filled buffers whose classification has not completed
    last            \* what the reactor's latest branch did (history)

vars == <<traffic, state, now, nextTick, intercept_dns, assoc, tasks, udpq, flows,
          accepted, tcpq, channel, ready, packet_buffer, inflight, last>>

startVars == <<channel, ready>>
bufVars == <<packet_buffer, inflight>>

udpVars == <<assoc, tasks, udpq>>
tcpVars == <<flows, accepted, tcpq>>

\* A call the reactor made into a component.
Call(fn, src, dst, payload, frame) ==
    [fn |-> fn, src |-> src, dst |-> dst, payload |-> payload, frame |-> frame]

\* last: the branch taken, the frame it handled, the calls it made into
\* TcpTun/UdpTun in order, the outbound sends UdpTun made, the associations
\* UdpTun evicted, what was logged.
Last(op, frame, calls, sends, evicted, log) ==
    [op |-> op, frame |-> frame, calls |-> calls, sends |-> sends,
     evicted |-> evicted, log |-> log]

DnsInterceptAddr == SocketAddr(IPv4(127, 0, 0, 1), 5300)

\* Mutation of UdpTunIntercept: UdpTun is constructed without the redirect.
UdpTunIntercept_None(cfg) == NoAddr

\* TunInbound::run: UdpTun::new(context, self.intercept_dns) - the redirect
\* endpoint UdpTun is constructed with.
UdpTunIntercept(cfg) == cfg


\* ------------------------------------------------------------- UdpTun
\* An association: the client endpoint it is keyed by, its last-activity
\* time, the destinations the client's datagrams were declared for, and the
\* receive buffer of its outbound socket (replies not yet forwarded).
Assoc(client, t, dsts, rx) ==
    [client |-> client, last |-> t, dsts |-> dsts, rx |-> rx]

\* Index of the association keyed by client endpoint c, 0 when absent.
Lookup(tbl, c) ==
    IF \E i \in DOMAIN tbl : tbl[i].client = c
    THEN CHOOSE i \in DOMAIN tbl :
            /\ tbl[i].client = c
            /\ \A j \in DOMAIN tbl : tbl[j].client = c => i <= j
    ELSE 0

\* The table without its entry i.
RemoveAt(tbl, i) ==
    [j \in 1..(Len(tbl) - 1) |-> IF j < i THEN tbl[j] ELSE tbl[j + 1]]

\* DNS interception: the endpoint a datagram declared for dst is sent to.
UdpTarget(icpt, dst) ==
    IF icpt # NoAddr /\ dst.port = 53 THEN icpt ELSE dst

\* What the outbound side can do with one datagram: accept it, fail to dial
\* (only when an association has to be created), fail the send, or report the
\* socket permanently dead.
UdpOutcomes(tbl, f) ==
    IF IpProtocol(f.proto) # "Udp" THEN {"ok"}
    ELSE IF Lookup(tbl, SocketAddr(f.src, f.sport)) = 0
    THEN {"ok", "dial_fail", "send_fail", "dead"}
    ELSE {"ok", "send_fail", "dead"}

\* Mutation of UdpLookupOrCreate: an association is created for every
\* datagram, without the lookup.
UdpLookupOrCreate_Always(tbl, src, t, out) ==
    IF out = "dial_fail" THEN tbl ELSE Append(tbl, Assoc(src, t, {}, <<>>))

\* handle_packet, step 1: the association for src, created when absent.
UdpLookupOrCreate(tbl, src, t, out) ==
    IF Lookup(tbl, src) # 0 \/ out = "dial_fail" THEN tbl
    ELSE Append(tbl, Assoc(src, t, {}, <<>>))

\* UdpTun::handle_packet(src, dst, payload): the table afterwards.
UdpHandlePacket(tbl, src, dst, t, out) ==
    LET tbl1 == UdpLookupOrCreate(tbl, src, t, out)
        i == Lookup(tbl1, src)
    IN  IF i = 0 THEN tbl1
        ELSE IF out = "dead" THEN RemoveAt(tbl1, i)
        ELSE [tbl1 EXCEPT ![i].last = t,
                          ![i].dsts = IF out = "ok" THEN @ \cup {dst} ELSE @]

\* The outbound sends handle_packet made: (client, endpoint sent to, payload).
UdpSends(icpt, src, dst, payload, out) ==
    IF out = "ok"
    THEN <<[client |-> src, to |-> UdpTarget(icpt, dst), payload |-> payload]>>
    ELSE <<>>

UdpHandleResult(out) == IF out = "ok" THEN "ok" ELSE "err"

\* The client endpoints that have an association.
ClientsOf(tbl) == {tbl[i].client : i \in DOMAIN tbl}

\* Mutation of Expired: the idle time is measured from half the timeout.
Expired_Early(a, t) == a.last < t - (IdleTimeout \div 2)

\* Whether cleanup at time t evicts association a.
Expired(a, t) == a.last < t - IdleTimeout

\* UdpTun::cleanup_expired(): the table afterwards.
UdpCleanupExpired(tbl, t) == SelectSeq(tbl, LAMBDA a : ~Expired(a, t))

\* The forwarding tasks after the table changed from tbl to tbl2: a task is
\* spawned with its association and shut down with it.
TasksAfter(tk, tbl, tbl2) ==
    (tk \ (ClientsOf(tbl) \ ClientsOf(tbl2))) \cup (ClientsOf(tbl2) \ ClientsOf(tbl))

\* The associations of tbl that tbl2 no longer holds.
EvictedBy(tbl, tbl2) ==
    {tbl[i] : i \in {j \in DOMAIN tbl : Lookup(tbl2, tbl[j].client) = 0}}

\* UdpTun::keep_alive(peer): the table afterwards.
UdpKeepAlive(tbl, peer, t) ==
    IF Lookup(tbl, peer) = 0 THEN tbl
    ELSE [tbl EXCEPT ![Lookup(tbl, peer)].last = t]

\* The endpoint a reply from `from` is attributed to: the destination the
\* client declared, when the datagram for it was redirected to `from`.
ReplySource(icpt, a, from) ==
    IF \E d \in a.dsts : UdpTarget(icpt, d) = from
    THEN CHOOSE d \in a.dsts : UdpTarget(icpt, d) = from
    ELSE from

\* The IP+UDP frame a forwarding task builds for a reply.
ReplyFrame(icpt, a, r) ==
    Udp4(ReplySource(icpt, a, r.from).ip, ReplySource(icpt, a, r.from).port,
         a.client.ip, a.client.port, r.payload)

\* ------------------------------------------------------------- TcpTun
Flow(src, dst, st) == [src |-> src, dst |-> dst, st |-> st]

FlowState(fl, src, dst) ==
    IF \E x \in fl : x.src = src /\ x.dst = dst
    THEN (CHOOSE x \in fl : x.src = src /\ x.dst = dst).st
    ELSE "closed"

\* What TcpTun::handle_packet can return for a frame's segment.
TcpOutcomes(f) == IF IpProtocol(f.proto) = "Tcp" THEN {"ok", "err"} ELSE {"ok"}

\* TcpTun::handle_packet(src, dst, segment): the connection table afterwards.
\* A SYN for an unknown flow opens it; the ACK that answers the SYN-ACK
\* completes the handshake.
TcpHandlePacket(fl, src, dst, flag, out) ==
    IF out # "ok" THEN fl
    ELSE IF flag = "syn" /\ FlowState(fl, src, dst) = "closed"
         THEN fl \cup {Flow(src, dst, "syn_rcvd")}
    ELSE IF flag = "ack" /\ FlowState(fl, src, dst) = "syn_rcvd"
         THEN (fl \ {Flow(src, dst, "syn_rcvd")}) \cup {Flow(src, dst, "established")}
    ELSE fl

\* The hijacked connections handle_packet dispatches to the proxy core: one
\* when the segment completes the handshake, reporting the packet's destination.
TcpAccepts(fl, src, dst, flag, out) ==
    IF out = "ok" /\ flag = "ack" /\ FlowState(fl, src, dst) = "syn_rcvd"
    THEN <<[peer |-> src, dst |-> dst]>>
    ELSE <<>>

\* TcpTun::drive_interface_state(frame): the frames the stack emits when it
\* is handed the frame: a SYN-ACK for a SYN of a flow in SYN-RECEIVED, an echo
\* reply for an echo request.
DriveInterfaceState(fl, f) ==
    IF IpProtocol(f.proto) = "Tcp" /\ f.flag = "syn"
         /\ FlowState(fl, SocketAddr(f.src, f.sport), SocketAddr(f.dst, f.dport)) = "syn_rcvd"
    THEN <<Frame(f.ver, TRUE, f.dst, f.src, f.proto, TRUE, f.dport, f.sport, "synack", "")>>
    ELSE IF IpProtocol(f.proto) \in {"Icmp", "Icmpv6"} /\ f.payload = "echo"
    THEN <<Frame(f.ver, TRUE, f.dst, f.src, f.proto, TRUE, 0, 0, "", "echo_reply")>>
    ELSE <<>>

\* The stack's transmit ring is bounded: a frame it cannot take is deferred.
Enqueue(q, fs) == IF Len(q) + Len(fs) <= TcpRingCap THEN q \o fs ELSE q


\* --------------------------------------------------- handle_tun_frame
\* Mutation of dst_addr: the destination endpoint is built from the source
\* address.
dst_addr_FromSource(f) == SocketAddr(f.src, f.dport)

\* The endpoints handle_tun_frame builds from the IP and transport headers.
src_addr(f) == SocketAddr(f.src, f.sport)
dst_addr(f) == SocketAddr(f.dst, f.dport)

\* Mutation of FrameCalls: the TCP arm drives the interface before it hands
\* the segment to handle_packet.
FrameCalls_DriveFirst(f) ==
    LET path == Classify(f)
    IN  CASE path = "tcp" ->
                <<Call("tcp.drive_interface_state", NoAddr, NoAddr, "", f),
                  Call("tcp.handle_packet", src_addr(f), dst_addr(f), "", f)>>
          [] path = "udp" ->
                <<Call("udp.handle_packet", src_addr(f), dst_addr(f), f.payload, NoFrame)>>
          [] path = "icmp" ->
                <<Call("tcp.drive_interface_state", NoAddr, NoAddr, "", f)>>
          [] OTHER -> <<>>

\* Mutation of FrameCalls: the ICMP arm is merged with the TCP arm.
FrameCalls_IcmpAsTcp(f) ==
    LET path == Classify(f)
    IN  CASE path \in {"tcp", "icmp"} ->
                <<Call("tcp.handle_packet", src_addr(f), dst_addr(f), "", f),
                  Call("tcp.drive_interface_state", NoAddr, NoAddr, "", f)>>
          [] path = "udp" ->
                <<Call("udp.handle_packet", src_addr(f), dst_addr(f), f.payload, NoFrame)>>
          [] OTHER -> <<>>

\* The calls handle_tun_frame makes into TcpTun and UdpTun for a frame, in
\* order.
FrameCalls(f) ==
    LET path == Classify(f)
    IN  CASE path = "tcp" ->
                <<Call("tcp.handle_packet", src_addr(f), dst_addr(f), "", f),
                  Call("tcp.drive_interface_state", NoAddr, NoAddr, "", f)>>
          [] path = "udp" ->
                <<Call("udp.handle_packet", src_addr(f), dst_addr(f), f.payload, NoFrame)>>
          [] path = "icmp" ->
                <<Call("tcp.drive_interface_state", NoAddr, NoAddr, "", f)>>
          [] OTHER -> <<>>

\* What handle_tun_frame itself logs on the path it takes.
FrameLog(f) ==
    LET path == Classify(f)
    IN  CASE path = "unrecognized" -> <<"warn: unrecognized IP packet">>
          [] path = "non_unicast" -> <<"trace: throwing away">>
          [] path = "tcp_hdr_err" -> <<"error: invalid TCP packet">>
          [] path = "udp_hdr_err" -> <<"error: invalid UDP packet">>
          [] path = "ignored" -> <<"debug: IP packet ignored">>
          [] OTHER -> <<>>

\* handle_tun_frame's return value: only the IP parser's error is returned.
FrameResult(f) == IF Classify(f) = "ip_parse_err" THEN "err" ELSE "ok"

\* The components' state as the calls of one frame thread it, with the calls
\* made so far.
Comp(a, tk, fl, acc, tq) ==
    [assoc |-> a, tasks |-> tk, flows |-> fl, accepted |-> acc, tcpq |-> tq,
     calls |-> <<>>, sends |-> <<>>, evicted |-> {}, log |-> <<>>]

\* One awaited call of handle_tun_frame: the component acts, and an error
\* it returns is logged.
ApplyCall(st, c, icpt, t, tout, uout) ==
    CASE c.fn = "tcp.handle_packet" ->
            [st EXCEPT
               !.flows = TcpHandlePacket(st.flows, c.src, c.dst, c.frame.flag, tout),
               !.accepted = @ \o TcpAccepts(st.flows, c.src, c.dst, c.frame.flag, tout),
               !.log = IF tout = "ok" THEN @
                       ELSE Append(@, "error: handle TCP packet failed")]
      [] c.fn = "tcp.drive_interface_state" ->
            [st EXCEPT !.tcpq = Enqueue(@, DriveInterfaceState(st.flows, c.frame))]
      [] c.fn = "udp.handle_packet" ->
            LET tbl2 == UdpHandlePacket(st.assoc, c.src, c.dst, t, uout)
            IN
            [st EXCEPT
               !.assoc = tbl2,
               !.tasks = TasksAfter(@, st.assoc, tbl2),
               !.sends = @ \o UdpSends(icpt, c.src, c.dst, c.payload, uout),
               !.evicted = @ \cup EvictedBy(st.assoc, tbl2),
               !.log = IF UdpHandleResult(uout) = "ok" THEN @
                       ELSE Append(@, "error: handle UDP packet failed")]
      [] OTHER -> st

\* Mutation of ApplyCalls: a component's error ends handle_tun_frame (`?`).
RECURSIVE ApplyCalls_StopOnError(_, _, _, _, _, _)
ApplyCalls_StopOnError(st, calls, icpt, t, tout, uout) ==
    IF calls = <<>> THEN st
    ELSE LET st1 == [ApplyCall(st, Head(calls), icpt, t, tout, uout)
                        EXCEPT !.calls = Append(@, Head(calls))]
         IN  IF Len(st1.log) > Len(st.log) THEN st1
             ELSE ApplyCalls_StopOnError(st1, Tail(calls), icpt, t, tout, uout)

RECURSIVE ApplyCalls(_, _, _, _, _, _)
ApplyCalls(st, calls, icpt, t, tout, uout) ==
    IF calls = <<>> THEN st
    ELSE ApplyCalls([ApplyCall(st, Head(calls), icpt, t, tout, uout)
                        EXCEPT !.calls = Append(@, Head(calls))],
                    Tail(calls), icpt, t, tout, uout)

\* ------------------------------------------------------ packet buffers
\* The capacity of a packet buffer, the maximum UDP payload size (64 KiB).
MAXIMUM_UDP_PAYLOAD_SIZE == 65536

\* A TokenBuffer: its length, its capacity, and the frame its bytes hold
\* (NoFrame: nothing received into it).
Buffer(len, cap, data) == [len |-> len, cap |-> cap, data |-> data]
NoBuffer == Buffer(0, 0, NoFrame)

\* Mutation of create_packet_buffer: the length is left as with_capacity
\* set it.
create_packet_buffer_NoSetLen == Buffer(0, MAXIMUM_UDP_PAYLOAD_SIZE, NoFrame)

\* The closure create_packet_buffer: with_capacity, then set_len to the
\* capacity.
create_packet_buffer ==
    Buffer(MAXIMUM_UDP_PAYLOAD_SIZE, MAXIMUM_UDP_PAYLOAD_SIZE, NoFrame)

\* device.read(&mut buf) with frame f next: the byte count it returns, at
\* most the length of the slice it is given.
ReadLen(f, buf) == IF FrameLen(f) <= buf.len THEN FrameLen(f) ELSE buf.len

\* The frame as n bytes of it read: cut short, its header no longer checks.
Received(f, n) == IF n < FrameLen(f) THEN [f EXCEPT !.hdr_ok = FALSE] ELSE f

\* Mutation of ReplaceBuffer: the filled buffer stays in the read slot.
ReplaceBuffer_Reuse(buf, fresh) == [slot |-> buf, moved |-> buf]

\* mem::replace(&mut packet_buffer, create_packet_buffer()): the fresh buffer
\* takes the slot, the filled one is moved out.
ReplaceBuffer(buf, fresh) == [slot |-> fresh, moved |-> buf]

\* The buffer handle_tun_frame is given after device.read returned n for
\* frame f into the slot buffer buf: moved out of the slot, set_len(n).
FilledBuffer(f, buf) ==
    [ReplaceBuffer([buf EXCEPT !.data = Received(f, ReadLen(f, buf))],
                   create_packet_buffer).moved
       EXCEPT !.len = ReadLen(f, buf)]

\* The buffer in the read slot after that read.
SlotAfterRead(f, buf) ==
    ReplaceBuffer([buf EXCEPT !.data = Received(f, ReadLen(f, buf))],
                  create_packet_buffer).slot

\* ---------------------------------------------------- TunHandler::run
\* Mutation of AtSelect: handle_tun_frame is spawned, not awaited.
AtSelect_Spawned == TRUE

\* The loop is at select!: the handler of the branch taken before has been
\* awaited to its end.
AtSelect == inflight = <<>>

\* Mutation of AfterFrame: handle_tun_frame's error is propagated with `?`.
AfterFrame_Propagate(ret) == IF ret = "err" THEN "failed" ELSE "running"

\* run after handle_tun_frame returned: an error is logged, the loop goes on.
AfterFrame(ret) == "running"

\* run after device.write returned n bytes (or an error) for a frame: every
\* outcome is only logged.
AfterWrite(w) == "running"

\* The results a device write of frame f can have: fully written, short,
\* or an error.
WriteResults(f) ==
    { [err |-> FALSE, n |-> FrameLen(f)], [err |-> FALSE, n |-> FrameLen(f) - 1],
      [err |-> TRUE, n |-> 0] }

\* What the egress branch logs for the write of frame f with result w.
WriteLog(f, w) ==
    IF w.err THEN <<"error: failed to set packet information">>
    ELSE IF w.n < FrameLen(f) THEN <<"warn: truncated">>
    ELSE <<"trace: sent IP packet">>

Init ==
    /\ traffic \in Scenarios
    /\ state = "running"
    /\ now = 0
    /\ nextTick = 0
    /\ intercept_dns \in IF traffic = "udp" THEN {NoAddr, DnsInterceptAddr} ELSE {NoAddr}
    /\ assoc = <<>>
    /\ tasks = {}
    /\ udpq = <<>>
    /\ flows = {}
    /\ accepted = <<>>
    /\ tcpq = <<>>
    /\ channel = "open"
    /\ ready = <<[msg |-> "tun", ok |-> TRUE]>>
    /\ packet_buffer = create_packet_buffer
    /\ inflight = <<>>
    /\ last = Last("init", NoFrame, <<>>, <<>>, {}, <<>>)

\* select! branch 1, the read failing: `let n = n?` returns the error.
DeviceReadFail ==
    /\ state = "running"
    /\ state' = "failed"
    /\ last' = Last("read_fail", NoFrame, <<>>, <<>>, {}, <<>>)
    /\ UNCHANGED <<startVars, bufVars, traffic, now, nextTick, intercept_dns, udpVars, tcpVars>>

\* handle_tun_frame on frame f, completed: the components act, the result is
\* only logged.
HandleFrame(f) ==
    /\ \E tout \in TcpOutcomes(f) :
       \E uout \in UdpOutcomes(assoc, f) :
       \E st \in {ApplyCalls(Comp(assoc, tasks, flows, accepted, tcpq),
                              FrameCalls(f), UdpTunIntercept(intercept_dns), now, tout, uout)} :
              /\ assoc' = st.assoc
              /\ tasks' = st.tasks
              /\ flows' = st.flows
              /\ accepted' = st.accepted
              /\ tcpq' = st.tcpq
              /\ state' = AfterFrame(FrameResult(f))
              /\ last' = Last("read", f, st.calls, st.sends, st.evicted,
                              FrameLog(f) \o st.log
                                \o (IF FrameResult(f) = "err"
                                    THEN <<"error: handle IP frame failed">>
                                    ELSE <<>>))
    /\ UNCHANGED <<startVars, traffic, now, nextTick, intercept_dns, udpq>>

\* select! branch 1: a frame is read, the buffer replaced, and the frame
\* classified by handle_tun_frame, which is awaited.
DeviceRead(f) ==
    /\ state = "running"
    /\ AtSelect
    /\ HandleFrame(FilledBuffer(f, packet_buffer).data)
    /\ packet_buffer' = SlotAfterRead(f, packet_buffer)
    /\ UNCHANGED inflight

\* Mutation of TcpEgress: a frame whose write failed stays first in line.
TcpEgress_RetryOnError ==
    /\ state = "running"
    /\ tcpq # <<>>
    /\ \E w \in WriteResults(Head(tcpq)) :
          /\ state' = AfterWrite(w)
          /\ last' = Last("tcp_write", Head(tcpq), <<>>, <<>>, {}, WriteLog(Head(tcpq), w))
          /\ tcpq' = IF w.err THEN tcpq ELSE Tail(tcpq)
    /\ UNCHANGED <<startVars, bufVars, traffic, now, nextTick, intercept_dns, udpVars, flows, accepted>>

\* select! branch 2: a frame from tcp.recv_packet() is written to the device.
TcpEgress ==
    /\ state = "running"
    /\ tcpq # <<>>
    /\ \E w \in WriteResults(Head(tcpq)) :
          /\ state' = AfterWrite(w)
          /\ last' = Last("tcp_write", Head(tcpq), <<>>, <<>>, {}, WriteLog(Head(tcpq), w))
    /\ tcpq' = Tail(tcpq)
    /\ UNCHANGED <<startVars, bufVars, traffic, now, nextTick, intercept_dns, udpVars, flows, accepted>>

\* Mutation of UdpEgress: the frame is taken from the queue and not written.
UdpEgress_NoWrite ==
    /\ state = "running"
    /\ udpq # <<>>
    /\ udpq' = Tail(udpq)
    /\ UNCHANGED <<startVars, bufVars, traffic, state, now, nextTick, intercept_dns, assoc, tasks, tcpVars, last>>

\* select! branch 3: a frame from udp.recv_packet() is written to the device.
UdpEgress ==
    /\ state = "running"
    /\ udpq # <<>>
    /\ \E w \in WriteResults(Head(udpq)) :
          /\ state' = AfterWrite(w)
          /\ last' = Last("udp_write", Head(udpq), <<>>, <<>>, {}, WriteLog(Head(udpq), w))
    /\ udpq' = Tail(udpq)
    /\ UNCHANGED <<startVars, bufVars, traffic, now, nextTick, intercept_dns, assoc, tasks, tcpVars>>

\* Mutation of CleanupTick: the tick is consumed without cleanup_expired().
CleanupTick_NoCleanup ==
    /\ state = "running"
    /\ now >= nextTick
    /\ nextTick' = nextTick + CleanupInterval
    /\ last' = Last("cleanup", NoFrame, <<>>, <<>>, {}, <<>>)
    /\ UNCHANGED <<startVars, bufVars, traffic, state, now, intercept_dns, udpVars, tcpVars>>

\* select! branch 4: udp_cleanup_timer ticks (its first tick is immediate, a
\* late tick is followed by the next one a period after its deadline).
CleanupTick ==
    /\ state = "running"
    /\ now >= nextTick
    /\ nextTick' = nextTick + CleanupInterval
    /\ assoc' = UdpCleanupExpired(assoc, now)
    /\ tasks' = TasksAfter(tasks, assoc, UdpCleanupExpired(assoc, now))
    /\ last' = Last("cleanup", NoFrame,
                    <<Call("udp.cleanup_expired", NoAddr, NoAddr, "", NoFrame)>>, <<>>,
                    EvictedBy(assoc, UdpCleanupExpired(assoc, now)), <<>>)
    /\ UNCHANGED <<startVars, bufVars, traffic, state, now, intercept_dns, udpq, tcpVars>>

\* The endpoints upper layers report on the keep-alive channel.
Peers == {src_addr(f) : f \in UdpFrames}

\* Mutation of KeepAlive: the peer is received and keep_alive() not called.
KeepAlive_NoRefresh(peer) ==
    /\ state = "running"
    /\ last' = Last("keep_alive", NoFrame, <<>>, <<>>, {}, <<>>)
    /\ UNCHANGED <<startVars, bufVars, traffic, state, now, nextTick, intercept_dns, udpVars, tcpVars>>

\* select! branch 5: a peer is received on the keep-alive channel.
KeepAlive(peer) ==
    /\ state = "running"
    /\ assoc' = UdpKeepAlive(assoc, peer, now)
    /\ last' = Last("keep_alive", NoFrame,
                    <<Call("udp.keep_alive", peer, NoAddr, "", NoFrame)>>, <<>>, {}, <<>>)
    /\ UNCHANGED <<startVars, bufVars, traffic, state, now, nextTick, intercept_dns, tasks, udpq, tcpVars>>

\* Mutation of KeepAliveClosed: None is logged and the loop goes on.
KeepAliveClosed_Continue ==
    /\ state = "running"
    /\ last' = Last("keep_alive_closed", NoFrame, <<>>, <<>>, {},
                    <<"error: UDP keep-alive channel closed">>)
    /\ UNCHANGED <<startVars, bufVars, traffic, state, now, nextTick, intercept_dns, udpVars, tcpVars>>

\* select! branch 5, the channel closed: recv() yields None and expect() panics.
KeepAliveClosed ==
    /\ state = "running"
    /\ state' = "panicked"
    /\ last' = Last("keep_alive_closed", NoFrame, <<>>, <<>>, {},
                    <<"panic: UDP keep-alive channel closed unexpectly">>)
    /\ UNCHANGED <<startVars, bufVars, traffic, now, nextTick, intercept_dns, udpVars, tcpVars>>

\* ----------------------------------------------------- the environment
\* The environment is observed while the reactor runs: when run returns, the
\* handler, its components and their tasks are dropped.
\* Time passes.  What the reactor did belongs to the instant it did it in.
Tick ==
    /\ state = "running"
    /\ now < TrafficOf(traffic).horizon
    /\ now' = now + 1
    /\ last' = Last("idle", NoFrame, <<>>, <<>>, {}, <<>>)
    /\ UNCHANGED <<startVars, bufVars, traffic, state, nextTick, intercept_dns, udpVars, tcpVars>>

\* The endpoints that answer on an association's outbound socket: those its
\* client's datagrams were sent to.
Remotes(icpt, a) == {UdpTarget(icpt, d) : d \in a.dsts}
Replies == {"Q"}

\* The outbound socket of association i receives a reply.
ReplyArrives(i, payload) ==
    /\ state = "running"
    /\ TrafficOf(traffic).replies
    /\ i \in DOMAIN assoc
    /\ Len(assoc[i].rx) < SockCap
    /\ \E from \in Remotes(UdpTunIntercept(intercept_dns), assoc[i]) :
          assoc' = [assoc EXCEPT ![i].rx = Append(@, [from |-> from, payload |-> payload])]
    /\ UNCHANGED <<startVars, bufVars, traffic, state, now, nextTick, intercept_dns, tasks, udpq, tcpVars, last>>

\* The forwarding task of association i reads a reply from the outbound
\* socket and pushes the frame into the send queue, which blocks it while full.
Forward(i) ==
    /\ state = "running"
    /\ i \in DOMAIN assoc
    /\ assoc[i].client \in tasks
    /\ assoc[i].rx # <<>>
    /\ Len(udpq) < QueueCap
    /\ udpq' = Append(udpq, ReplyFrame(UdpTunIntercept(intercept_dns), assoc[i],
                                       Head(assoc[i].rx)))
    /\ assoc' = [assoc EXCEPT ![i].rx = Tail(@)]
    /\ UNCHANGED <<startVars, bufVars, traffic, state, now, nextTick, intercept_dns, tasks, tcpVars, last>>

Next ==
    \/ DeviceReadFail
    \/ \E f \in TrafficOf(traffic).frames : DeviceRead(f)
    \/ TcpEgress
    \/ UdpEgress
    \/ CleanupTick
    \/ \E peer \in Peers : KeepAlive(peer)
    \/ KeepAliveClosed
    \/ Tick
    \/ \E i \in 1..2, payload \in Replies : ReplyArrives(i, payload)
    \/ \E i \in 1..2 : Forward(i)

Spec == Init /\ [][Next]_vars


\* ------------------------------------- the read branch, step by step
\* Classifications a run is followed through at a time.
MaxInflight == 2

\* select! branch 1 up to the call of handle_tun_frame: a frame is read, the
\* buffer replaced, the filled buffer handed to handle_tun_frame.
ReadBegin(f) ==
    /\ state = "running"
    /\ AtSelect
    /\ Len(inflight) < MaxInflight
    /\ inflight' = Append(inflight, FilledBuffer(f, packet_buffer))
    /\ packet_buffer' = SlotAfterRead(f, packet_buffer)
    /\ last' = Last("read_begin", FilledBuffer(f, packet_buffer).data, <<>>, <<>>, {},
                    <<"trace: received IP packet">>)
    /\ UNCHANGED <<startVars, traffic, state, now, nextTick, intercept_dns, udpVars, tcpVars>>

\* The buffers in classification once that of buffer i returned: the buffer
\* was moved into handle_tun_frame and is dropped with it.
WithoutBuffer(q, i) == [j \in 1..(Len(q) - 1) |-> IF j < i THEN q[j] ELSE q[j + 1]]

\* handle_tun_frame, with the calls it awaits, completes for the buffer it
\* was handed.
ReadEnd(i) ==
    /\ state = "running"
    /\ i \in DOMAIN inflight
    /\ HandleFrame(inflight[i].data)
    /\ inflight' = WithoutBuffer(inflight, i)
    /\ UNCHANGED packet_buffer

\* A burst of datagrams of two clients, or of segments of two flows.
SerialInit == Init /\ traffic \in {"two_clients", "tcp"}

SerialNext ==
    \/ \E f \in TrafficOf(traffic).frames : ReadBegin(f)
    \/ \E i \in 1..MaxInflight : ReadEnd(i)
    \/ AtSelect /\ DeviceReadFail
    \/ AtSelect /\ TcpEgress
    \/ AtSelect /\ CleanupTick
    \/ AtSelect /\ \E peer \in Peers : KeepAlive(peer)
    \/ AtSelect /\ KeepAliveClosed

\* The reactor with the await of handle_tun_frame as a step of its own.
SerialSpec == SerialInit /\ [][SerialNext]_vars

\* --------------------------------------------------- TunInbound::run
\* What the caller hands to run as `channel`: None, a sender whose receiver
\* listens, a sender whose receiver is gone.
Channels == {"none", "open", "closed"}

\* run is called: nothing exists yet.
StartInit ==
    /\ traffic = "tcp"
    /\ state = "start"
    /\ now = 0
    /\ nextTick = 0
    /\ intercept_dns = NoAddr
    /\ assoc = <<>>
    /\ tasks = {}
    /\ udpq = <<>>
    /\ flows = {}
    /\ accepted = <<>>
    /\ tcpq = <<>>
    /\ channel \in Channels
    /\ ready = <<>>
    /\ packet_buffer = NoBuffer
    /\ inflight = <<>>
    /\ last = Last("init", NoFrame, <<>>, <<>>, {}, <<>>)

\* create_as_async succeeds.
CreateDevice ==
    /\ state = "start"
    /\ state' = "created"
    /\ last' = Last("create", NoFrame, <<>>, <<>>, {}, <<"info: Creating tun interface">>)
    /\ UNCHANGED <<startVars, bufVars, traffic, now, nextTick, intercept_dns, udpVars, tcpVars>>

\* create_as_async fails: run returns the error.
CreateDeviceFail ==
    /\ state = "start"
    /\ state' = "create_failed"
    /\ last' = Last("create_fail", NoFrame, <<>>, <<>>, {}, <<>>)
    /\ UNCHANGED <<startVars, bufVars, traffic, now, nextTick, intercept_dns, udpVars, tcpVars>>

\* channel.send("tun".to_string()).await of a supplied channel; its result is
\* discarded.
SendReady(ch, sent) ==
    IF ch = "none" THEN sent ELSE Append(sent, [msg |-> "tun", ok |-> ch = "open"])

\* Mutation of StartReactor: the ready message is not sent.
StartReactor_NoSend ==
    /\ state = "created"
    /\ state' = "running"
    /\ packet_buffer' = create_packet_buffer
    /\ nextTick' = now
    /\ last' = Last("start", NoFrame, <<>>, <<>>, {}, <<>>)
    /\ UNCHANGED <<startVars, inflight, traffic, now, intercept_dns, udpVars, tcpVars>>

\* The device exists: the ready message is sent, TcpTun and UdpTun are
\* constructed, and handler.run creates its buffer and its timer and enters
\* the loop.
StartReactor ==
    /\ state = "created"
    /\ ready' = SendReady(channel, ready)
    /\ state' = "running"
    /\ packet_buffer' = create_packet_buffer
    /\ nextTick' = now
    /\ last' = Last("start", NoFrame, <<>>, <<>>, {}, <<>>)
    /\ UNCHANGED <<channel, inflight, traffic, now, intercept_dns, udpVars, tcpVars>>

StartNext ==
    \/ CreateDevice
    \/ CreateDeviceFail
    \/ StartReactor
    \/ DeviceReadFail
    \/ \E f \in TrafficOf(traffic).frames : DeviceRead(f)
    \/ TcpEgress
    \/ CleanupTick
    \/ \E peer \in Peers : KeepAlive(peer)
    \/ KeepAliveClosed

\* One call of TunInbound::run, from its first line.
StartSpec == StartInit /\ [][StartNext]_vars

\* ------------------------------------------------------------- claims
InLog(msg) == \E k \in DOMAIN last.log : last.log[k] = msg

\* What is logged for an error that concerns one packet.
PerPacketErrors ==
    { "error: handle IP frame failed", "warn: unrecognized IP packet",
      "error: invalid TCP packet", "error: invalid UDP packet",
      "error: handle TCP packet failed", "error: handle UDP packet failed",
      "error: failed to set packet information", "warn: truncated" }

\* C1: run has returned an error only if the device read failed; after any
\* per-packet error (IP parse failure, TCP/UDP header parse failure, an error
\* of TcpTun::handle_packet or UdpTun::handle_packet, a device write error, a
\* short write) the reactor is still running.
C1_OnlyReadFailureReturns ==
    /\ state = "failed" => last.op = "read_fail"
    /\ last.op \in {"read", "tcp_write", "udp_write"} => state = "running"
    /\ (\E msg \in PerPacketErrors : InLog(msg)) => state = "running"

\* A frame the IP parser rejected was read, the error logged, and the reactor
\* runs on.
C1_Witness ==
    /\ last.op = "read"
    /\ InLog("error: handle IP frame failed")
    /\ state = "running"

\* C2: reading a frame whose source or destination is the device broadcast
\* address, or broadcast, multicast or unspecified, changes nothing in UdpTun
\* or TcpTun (no association created or refreshed, no frame queued for the
\* device) and calls neither component.
C2_NonUnicastDropped ==
    [][(/\ last'.op = "read"
        /\ last'.frame \in NonUnicastFrames
        /\ DeviceRead(last'.frame))
       => (/\ UNCHANGED <<udpVars, tcpVars>>
           /\ last'.calls = <<>>
           /\ last'.sends = <<>>)]_vars

\* The datagram to the device broadcast address 10.0.0.255 was read while an
\* association and a TCP flow existed.
C2_Witness ==
    /\ last.op = "read"
    /\ last.frame = Udp4(ClientIp, 1000, IPv4(10, 0, 0, 255), 5353, "P")
    /\ assoc # <<>>
    /\ flows # {}
    /\ last.calls = <<>>

\* C3: reading a frame IpPacket::new_checked rejects (malformed, or a version
\* that is neither 4 nor 6), or a TCP or UDP frame whose transport header does
\* not parse, changes nothing in UdpTun or TcpTun, calls neither and queues
\* nothing for the device.
C3_UnparsableDropped ==
    [][(/\ last'.op = "read"
        /\ last'.frame \in MalformedFrames \cup BadTransportFrames
        /\ DeviceRead(last'.frame))
       => (/\ UNCHANGED <<udpVars, tcpVars>>
           /\ last'.calls = <<>>
           /\ last'.sends = <<>>)]_vars

\* A TCP frame with a broken TCP header was read while an association and a
\* TCP flow existed.
C3_Witness ==
    /\ last.op = "read"
    /\ last.frame \in BadTransportFrames
    /\ IpProtocol(last.frame.proto) = "Tcp"
    /\ InLog("error: invalid TCP packet")
    /\ assoc # <<>>
    /\ flows # {}

\* C4: the association table never holds two associations for one client
\* endpoint.
C4_OneAssociationPerClient ==
    \A i, j \in DOMAIN assoc : assoc[i].client = assoc[j].client => i = j

\* A client's second datagram, to another target, went through the
\* association its first datagram created.
C4_Witness ==
    /\ last.op = "read"
    /\ \E i \in DOMAIN assoc : Cardinality(assoc[i].dsts) = 2

\* C5: right after cleanup_expired() ran at time `now`, no association idle
\* for longer than idle_timeout is left, and what it evicted has no entry and
\* no forwarding task; once the tick with deadline D has been served, no
\* association is left whose last activity is before D - idle_timeout (D = 40 s:
\* none idle since before 10 s).
C5_CleanupEvictsExpired ==
    /\ last.op = "cleanup" =>
          /\ \A i \in DOMAIN assoc : assoc[i].last >= now - IdleTimeout
          /\ \A a \in last.evicted :
                Lookup(assoc, a.client) = 0 /\ a.client \notin tasks
    /\ nextTick > 0 =>
          \A i \in DOMAIN assoc :
             assoc[i].last >= (nextTick - CleanupInterval) - IdleTimeout

\* The tick of t = 40 s evicted an association.
C5_Witness ==
    /\ last.op = "cleanup"
    /\ now = 8
    /\ nextTick = 10
    /\ last.evicted # {}
    /\ assoc = <<>>
    /\ tasks = {}

\* C6: when the reactor receives a peer on the keep-alive channel, afterwards
\* the peer's association, if there is one, has last-activity >= now, and the
\* refresh sent nothing, consumed no reply, queued no frame and changed no
\* other part of the table.
C6_KeepAliveRefreshes ==
    [][\A p \in Peers :
          KeepAlive(p) =>
             /\ Lookup(assoc', p) = Lookup(assoc, p)
             /\ Lookup(assoc', p) # 0 => assoc'[Lookup(assoc', p)].last >= now
             /\ Len(assoc') = Len(assoc)
             /\ \A i \in DOMAIN assoc :
                   /\ assoc'[i].rx = assoc[i].rx
                   /\ assoc'[i].dsts = assoc[i].dsts
                   /\ assoc'[i].client = assoc[i].client
             /\ udpq' = udpq
             /\ last'.sends = <<>>]_vars

\* A keep-alive at t = 25 s found an association and refreshed it.
C6_Witness ==
    /\ last.op = "keep_alive"
    /\ now = 5
    /\ \E i \in DOMAIN assoc :
          assoc[i].client = last.calls[1].src /\ assoc[i].last = 5

\* C7: cleanup_expired() keeps every association whose last activity is
\* within idle_timeout of the cleanup time, and its forwarding task.
C7_CleanupKeepsActive ==
    [][CleanupTick =>
          \A i \in DOMAIN assoc :
             assoc[i].last >= now - IdleTimeout =>
                /\ \E j \in DOMAIN assoc' : assoc'[j] = assoc[i]
                /\ assoc[i].client \in tasks']_vars

\* The cleanup of t = 40 s ran and an association last active at t = 25 s is
\* still there.
C7_Witness ==
    /\ last.op = "cleanup"
    /\ now = 8
    /\ nextTick = 10
    /\ \E i \in DOMAIN assoc : assoc[i].last = 5

\* The reactor with one client exchanging datagrams with 8.8.8.8:53, the
\* device read never failing and the keep-alive channel staying open.
LiveInit == Init /\ traffic = "udp"

NextLive ==
    \/ \E f \in TrafficOf(traffic).frames : DeviceRead(f)
    \/ UdpEgress
    \/ CleanupTick
    \/ \E peer \in Peers : KeepAlive(peer)
    \/ Tick
    \/ \E i \in 1..2, payload \in Replies : ReplyArrives(i, payload)
    \/ \E i \in 1..2 : Forward(i)

\* select! serves a branch that stays ready, and the runtime runs a
\* forwarding task that stays runnable.
LiveSpec ==
    /\ LiveInit
    /\ [][NextLive]_vars
    /\ WF_vars(UdpEgress)
    /\ WF_vars(CleanupTick)
    /\ WF_vars(\E i \in 1..2 : Forward(i))

\* An outbound socket holds a reply its forwarding task has not read yet.
ReplyPending == \E i \in DOMAIN assoc : assoc[i].rx # <<>>

\* The reactor has just attempted the device write of the frame for a reply
\* "Q" of 8.8.8.8:53 to 10.0.0.50:40000.
ReplyWritten ==
    /\ last.op = "udp_write"
    /\ last.frame = Udp4(DnsIp, 53, ClientIp, 40000, "Q")

\* An association was just evicted with a reply still unread in its socket.
EvictedWithReply == \E a \in last.evicted : a.rx # <<>>

C9_OneAcceptPerHandshake ==
    /\ \A f \in TcpFrames :
          LET src == SocketAddr(f.src, f.sport)
              dst == SocketAddr(f.dst, f.dport)
              n == Cardinality({i \in DOMAIN accepted :
                                  accepted[i].peer = src /\ accepted[i].dst = dst})
          IN  IF FlowState(flows, src, dst) = "established" THEN n = 1 ELSE n = 0
    /\ \A i \in DOMAIN accepted :
          \E f \in TcpFrames :
             /\ accepted[i].peer = SocketAddr(f.src, f.sport)
             /\ accepted[i].dst = SocketAddr(f.dst, f.dport)

\* The handshake of 10.0.0.50:50000 -> 93.184.216.34:443 completed and the
\* proxy core has one connection, reporting 93.184.216.34:443.
C9_Witness ==
    /\ last.op = "read"
    /\ last.frame = Tcp4(ClientIp, 50000, WebIp, 443, "ack")
    /\ FlowState(flows, SocketAddr(ClientIp, 50000), SocketAddr(WebIp, 443)) = "established"
    /\ accepted = <<[peer |-> SocketAddr(ClientIp, 50000), dst |-> SocketAddr(WebIp, 443)]>>

\* C10, the sends: a datagram UdpTun sends out goes to the redirect endpoint
\* when intercept_dns is configured and its destination port is 53, else to
\* its own destination.
C10_SendsRedirected ==
    (last.op = "read" /\ last.frame \in UdpFrames) =>
       \A k \in DOMAIN last.sends :
          /\ last.sends[k].client = SocketAddr(last.frame.src, last.frame.sport)
          /\ last.sends[k].payload = last.frame.payload
          /\ last.sends[k].to =
                IF intercept_dns # NoAddr /\ last.frame.dport = 53
                THEN intercept_dns
                ELSE SocketAddr(last.frame.dst, last.frame.dport)

\* C10, the replies: the frame a forwarding task queues for a reply goes to
\* the client, carries the reply, and has as its source the port-53
\* destination the client declared when the reply comes from the redirect
\* endpoint, else the endpoint the reply comes from.
C10_ReplyRewritten ==
    \A i \in DOMAIN assoc :
       Forward(i) =>
          LET r == Head(assoc[i].rx)
              fr == udpq'[Len(udpq')]
          IN  /\ SocketAddr(fr.dst, fr.dport) = assoc[i].client
              /\ fr.payload = r.payload
              /\ IpProtocol(fr.proto) = "Udp"
              /\ IF intercept_dns # NoAddr /\ r.from = intercept_dns
                 THEN /\ SocketAddr(fr.src, fr.sport) \in assoc[i].dsts
                      /\ fr.sport = 53
                      /\ SocketAddr(fr.src, fr.sport) # intercept_dns
                 ELSE SocketAddr(fr.src, fr.sport) = r.from

C11_OtherProtocolDropped ==
    [][(/\ last'.op = "read"
        /\ last'.frame \in OtherFrames
        /\ DeviceRead(last'.frame))
       => (/\ UNCHANGED <<udpVars, tcpVars>>
           /\ last'.calls = <<>>
           /\ last'.sends = <<>>
           /\ state' = "running")]_vars

\* A GRE frame (protocol 47) was read while an association and a TCP flow
\* existed, and the drop logged at debug level.
C11_Witness ==
    /\ last.op = "read"
    /\ last.frame \in OtherFrames
    /\ last.frame.proto = 47
    /\ last.log = <<"debug: IP packet ignored">>
    /\ assoc # <<>>
    /\ flows # {}

\* The reactor is where recv() on the closed keep-alive channel left it.
C13_AbortedOnClose ==
    /\ last.op = "keep_alive_closed" =>
          /\ state = "panicked"
          /\ last.log = <<"panic: UDP keep-alive channel closed unexpectly">>
    /\ state = "panicked" => last.op = "keep_alive_closed"

\* C13: when recv() on the keep-alive channel yields None the reactor aborts
\* with the message of expect(): it neither runs on nor returns an error, and
\* takes no further step.
C13_KeepAliveClosedAborts ==
    [](C13_AbortedOnClose) /\ [][state # "panicked" /\ (KeepAliveClosed => state' = "panicked")]_vars

\* The channel closed while an association existed; the reactor has aborted.
C13_Witness ==
    /\ state = "panicked"
    /\ last.op = "keep_alive_closed"
    /\ assoc # <<>>

\* C15: for a unicast frame with a well-formed TCP segment the reactor calls
\* TcpTun::handle_packet with the frame's (source IP:port, destination
\* IP:port) and then TcpTun::drive_interface_state with the whole frame, each
\* exactly once.
C15_HandleThenDrive ==
    (last.op = "read" /\ last.frame \in TcpFrames) =>
       last.calls =
          << Call("tcp.handle_packet",
                  SocketAddr(last.frame.src, last.frame.sport),
                  SocketAddr(last.frame.dst, last.frame.dport), "", last.frame),
             Call("tcp.drive_interface_state", NoAddr, NoAddr, "", last.frame) >>

\* A SYN was read: handle_packet opened the flow and drive_interface_state,
\* called after it, made the stack emit the SYN-ACK.
C15_Witness ==
    /\ last.op = "read"
    /\ last.frame = Tcp4(ClientIp, 50000, WebIp, 443, "syn")
    /\ Len(last.calls) = 2
    /\ FlowState(flows, SocketAddr(ClientIp, 50000), SocketAddr(WebIp, 443)) = "syn_rcvd"
    /\ \E k \in DOMAIN tcpq : tcpq[k].flag = "synack"

\* C16: UdpTun::handle_packet is called only for UDP frames, and a UDP frame
\* causes no TcpTun call; TcpTun::handle_packet is called only for TCP frames;
\* drive_interface_state only for TCP, ICMP and ICMPv6 frames; a well-formed
\* unicast ICMP or ICMPv6 frame causes one drive_interface_state call with the
\* whole frame and nothing else.
C16_DispatchByProtocol ==
    last.op = "read" =>
       /\ \A k \in DOMAIN last.calls :
             /\ last.calls[k].fn = "udp.handle_packet" => last.frame.proto = 17
             /\ last.calls[k].fn = "tcp.handle_packet" => last.frame.proto = 6
             /\ last.calls[k].fn = "tcp.drive_interface_state" =>
                   last.frame.proto \in {6, 1, 58} /\ last.calls[k].frame = last.frame
             /\ last.frame.proto = 17 => last.calls[k].fn = "udp.handle_packet"
       /\ last.frame \in IcmpFrames =>
             last.calls = <<Call("tcp.drive_interface_state", NoAddr, NoAddr, "", last.frame)>>

\* An ICMPv4 echo request was read and handed to the stack, which queued the
\* echo reply.
C16_Witness ==
    /\ last.op = "read"
    /\ last.frame \in IcmpFrames
    /\ last.frame.proto = 1
    /\ Len(last.calls) = 1
    /\ \E k \in DOMAIN tcpq : tcpq[k].payload = "echo_reply"

\* C20: a well-formed unicast TCP frame is handed to drive_interface_state
\* also when handle_packet returned an error for it, which is logged; a TCP
\* frame whose TCP header does not parse is never handed to it.
C20_DriveAfterHandleError ==
    last.op = "read" =>
       /\ (last.frame \in TcpFrames /\ InLog("error: handle TCP packet failed")) =>
             /\ Len(last.calls) = 2
             /\ last.calls[2] = Call("tcp.drive_interface_state", NoAddr, NoAddr, "", last.frame)
             /\ state = "running"
       /\ (last.frame \in BadTransportFrames /\ last.frame.proto = 6) =>
             \A k \in DOMAIN last.calls : last.calls[k].fn # "tcp.drive_interface_state"

\* handle_packet failed for a SYN, and the frame was still handed to
\* drive_interface_state.
C20_Witness ==
    /\ last.op = "read"
    /\ last.frame = Tcp4(ClientIp, 50000, WebIp, 443, "syn")
    /\ InLog("error: handle TCP packet failed")
    /\ Len(last.calls) = 2
    /\ last.calls[2].fn = "tcp.drive_interface_state"


\* q2 is q with frames appended.
Extends(q2, q) == Len(q) <= Len(q2) /\ SubSeq(q2, 1, Len(q)) = q

\* A step that takes a frame from queue q (q2 afterwards) is the write
\* branch `op` writing the head of q.
LeavesByWrite(q, q2, op) ==
    ~Extends(q2, q) =>
       /\ q # <<>>
       /\ q2 = Tail(q)
       /\ last'.op = op
       /\ last'.frame = Head(q)
       /\ Len(last'.log) = 1

\* C17: a frame leaves an egress queue only by the reactor's write branch, the
\* head first, with one write attempt whose outcome is only logged; the write
\* branch always removes the frame it attempted, also after a short write or
\* an error, so no frame is dropped unwritten, written out of order or
\* written again.
C17_OneWritePerFrameInOrder ==
    [][/\ LeavesByWrite(tcpq, tcpq', "tcp_write")
       /\ LeavesByWrite(udpq, udpq', "udp_write")
       /\ TcpEgress => tcpq' = Tail(tcpq) /\ last'.frame = Head(tcpq) /\ udpq' = udpq
       /\ UdpEgress => udpq' = Tail(udpq) /\ last'.frame = Head(udpq) /\ tcpq' = tcpq
       /\ (last'.op \in {"tcp_write", "udp_write"} /\ last' # last) =>
             (TcpEgress \/ UdpEgress)]_vars

\* The write of a SYN-ACK failed; the frame is gone from the ring and the
\* frame received after it is next.
C17_Witness ==
    /\ last.op = "tcp_write"
    /\ last.frame.flag = "synack"
    /\ last.log = <<"error: failed to set packet information">>
    /\ tcpq # <<>>
    /\ Head(tcpq) # last.frame
    /\ state = "running"


\* C12: with a ready channel supplied, "tun" has been sent on it exactly once
\* when the reactor runs (and so before its first read), and not before the
\* device exists; when device creation fails nothing is sent; without a
\* channel nothing is sent.
C12_ReadySentOnce ==
    /\ state \in {"start", "created", "create_failed"} => ready = <<>>
    /\ state \in {"running", "failed", "panicked"} =>
          IF channel = "none" THEN ready = <<>>
          ELSE /\ Len(ready) = 1
               /\ ready[1].msg = "tun"
               /\ ready[1].ok = (channel = "open")
    /\ last.op \in {"read", "read_fail"} => state \in {"running", "failed"}

\* With a listening ready channel the reactor has read a SYN, and "tun" was
\* sent once.
C12_Witness ==
    /\ channel = "open"
    /\ ready = <<[msg |-> "tun", ok |-> TRUE]>>
    /\ last.op = "read"
    /\ last.frame = Tcp4(ClientIp, 50000, WebIp, 443, "syn")
    /\ flows # {}


\* C14: every packet buffer the reactor holds has length <= capacity: the
\* buffer in the read slot has length = capacity = the maximum UDP payload
\* size, and a buffer handed to classification has the length the read
\* returned, the frame's length or, for a longer frame, the capacity.
C14_LengthWithinCapacity ==
    /\ packet_buffer.len <= packet_buffer.cap
    /\ state = "running" =>
          /\ packet_buffer.len = packet_buffer.cap
          /\ packet_buffer.cap = MAXIMUM_UDP_PAYLOAD_SIZE
    /\ \A i \in DOMAIN inflight :
          /\ inflight[i].len <= inflight[i].cap
          /\ inflight[i].cap = MAXIMUM_UDP_PAYLOAD_SIZE
          /\ inflight[i].len =
                IF inflight[i].data.payload = "jumbo" THEN MAXIMUM_UDP_PAYLOAD_SIZE
                ELSE FrameLen(inflight[i].data)

\* A SYN of 40 bytes was read: the buffer in classification has length 40.
C14_Witness ==
    /\ last.op = "read_begin"
    /\ Len(inflight) = 1
    /\ inflight[1].data = Tcp4(ClientIp, 50000, WebIp, 443, "syn")
    /\ inflight[1].len = 40
    /\ packet_buffer.len = MAXIMUM_UDP_PAYLOAD_SIZE

\* C18: at most one classification is in progress, and while one is, the
\* next step of the reactor is its completion: no read, egress write, cleanup
\* or keep-alive comes between, so frames are handled in the order read.
C18_NoOverlap == Len(inflight) <= 1

C18_CompletesFirst ==
    inflight # <<>> =>
       /\ inflight' = Tail(inflight)
       /\ last'.op = "read"
       /\ last'.frame = Head(inflight).data

C18_SerialReactor == [](C18_NoOverlap) /\ [][C18_CompletesFirst]_vars

\* The second datagram of 10.0.0.50:40000 was handled after its first: the
\* association its first created carries both targets.
C18_Witness ==
    /\ last.op = "read"
    /\ last.frame \in UdpFrames
    /\ inflight = <<>>
    /\ \E i \in DOMAIN assoc :
          /\ assoc[i].client = SocketAddr(ClientIp, 40000)
          /\ Cardinality(assoc[i].dsts) = 2

\* C19, the buffers: the read slot never holds the frame of a buffer that
\* was handed to classification; it holds a buffer nothing was received into.
C19_SlotIsFresh ==
    /\ packet_buffer.data = NoFrame
    /\ \A i \in DOMAIN inflight :
          /\ inflight[i].data # NoFrame
          /\ inflight[i].data # packet_buffer.data

\* C19, the steps: a completed read hands the filled buffer to classification
\* and puts a fresh one in the slot; any other step keeps the slot's buffer;
\* a buffer leaves classification only by being classified, once.
C19_Handoff ==
    /\ (\E f \in Frames : ReadBegin(f)) =>
          /\ Len(inflight') = Len(inflight) + 1
          /\ inflight'[Len(inflight')].data = last'.frame
          /\ packet_buffer'.data = NoFrame
          /\ packet_buffer'.len = packet_buffer'.cap
    /\ (last'.op # "read_begin" \/ last' = last) => packet_buffer' = packet_buffer
    /\ Len(inflight') < Len(inflight) =>
          /\ last'.op = "read"
          /\ \E i \in DOMAIN inflight :
                inflight' = WithoutBuffer(inflight, i) /\ last'.frame = inflight[i].data

\* C19: the filled buffer is moved into classification and a fresh buffer
\* takes the read slot, so a later read never uses a buffer classification
\* holds; other branches keep the slot's buffer, and no frame is lost or
\* classified twice.
C19_BufferHandoff == [](C19_SlotIsFresh) /\ [][C19_Handoff]_vars

\* An echo request is being classified: its buffer is with handle_tun_frame
\* and the slot holds a fresh buffer.
C19_Witness ==
    /\ last.op = "read_begin"
    /\ Len(inflight) = 1
    /\ inflight[1].data \in IcmpFrames
    /\ packet_buffer = Buffer(MAXIMUM_UDP_PAYLOAD_SIZE, MAXIMUM_UDP_PAYLOAD_SIZE, NoFrame)

=============================================================================
